---- MODULE Spec2Model ----
(***************************************************************************)
(* Model of the Discord ping bot in                                        *)
(* src/ping_setter/management/commands/send_ping.py: the configuration     *)
(* dictionary and its file, the APScheduler job table, the map-name cache, *)
(* the API client functions, the slash-command handlers, the cron job      *)
(* function and the on_ready startup handler.                              *)
(*                                                                         *)
(* All handlers run on one asyncio event loop, so a handler is atomic      *)
(* between two of its await points; every action below is one such         *)
(* segment of a handler.                                                   *)
(*                                                                         *)
(* Strings the code slices, parses or filters are sequences of             *)
(* one-character strings; the character "^2" stands for U+00B2             *)
(* SUPERSCRIPT TWO, for which str.isdigit() is true and int() raises.      *)
(***************************************************************************)
EXTENDS Integers, Sequences, FiniteSets, TLC

\* ------------------------------------------------------------------------
\* Bounds of the model
\* ------------------------------------------------------------------------
MaxCmds == 2        \* command handlers waiting in their reply together
MaxFetches == 2     \* invocations of fetch_and_cache_maps in one run
MaxMaps == 2        \* maps in one get_maps response

\* ------------------------------------------------------------------------
\* Python string and integer conversions
\* ------------------------------------------------------------------------
DecimalChars == <<"0", "1", "2", "3", "4", "5", "6", "7", "8", "9">>

IsDecimal(c) == \E i \in 1..Len(DecimalChars) : DecimalChars[i] = c

\* str.isdigit() of one character: decimal digits and the other characters
\* of Unicode type Digit, here the superscript two.
IsDigitChar(c) == IsDecimal(c) \/ c = "^2"

\* str.isdigit(): every character is a digit and there is at least one.
isdigit(s) == Len(s) > 0 /\ \A i \in 1..Len(s) : IsDigitChar(s[i])

DigitVal(c) == (CHOOSE i \in 1..Len(DecimalChars) : DecimalChars[i] = c) - 1

Min(a, b) == IF a < b THEN a ELSE b

\* s[:k] and s[k:] of Python, which clamp to the length of s.
Prefix(s, k) == SubSeq(s, 1, Min(k, Len(s)))
Suffix(s, k) == SubSeq(s, Min(k, Len(s)) + 1, Len(s))

\* int(s) raises ValueError unless s is a non-empty run of decimal digits
\* (the slices the code parses never hold signs, blanks or underscores
\* when int() is reached on the command path, and none in the model).
IntRaises(s) == Len(s) = 0 \/ \E i \in 1..Len(s) : ~IsDecimal(s[i])

RECURSIVE IntVal(_)
IntVal(s) == IF Len(s) = 0 THEN 0
             ELSE 10 * IntVal(SubSeq(s, 1, Len(s) - 1)) + DigitVal(s[Len(s)])

\* CronTrigger(hour=, minute=) raises ValueError for a value out of range.
CronTriggerRaises(hour, minute) == ~(hour \in 0..23 /\ minute \in 0..59)

\* ------------------------------------------------------------------------
\* Configuration dictionary, scheduler job table
\* ------------------------------------------------------------------------
JobNums == {1, 2}

ConfigKeys == {"SCHEDULED_JOB_1_TIME", "SCHEDULED_JOB_1_PING",
               "SCHEDULED_JOB_2_TIME", "SCHEDULED_JOB_2_PING",
               "TIMEZONE", "CHANNEL_ID"}

\* job_config_map of reschedule_job; a job id outside it maps to (None, None).
job_config_map(n) ==
    IF n = 1 THEN <<"SCHEDULED_JOB_1_TIME", "SCHEDULED_JOB_1_PING">>
    ELSE IF n = 2 THEN <<"SCHEDULED_JOB_2_TIME", "SCHEDULED_JOB_2_PING">>
    ELSE <<"", "">>

\* The schedule values of the configuration the process starts with.
InitConfig ==
    [k \in ConfigKeys |->
        CASE k = "SCHEDULED_JOB_1_TIME" -> <<"0", "0", "0", "9">>
          [] k = "SCHEDULED_JOB_1_PING" -> 500
          [] k = "SCHEDULED_JOB_2_TIME" -> <<"1", "5", "0", "0">>
          [] k = "SCHEDULED_JOB_2_PING" -> 320
          [] k = "TIMEZONE" -> "Australia/Sydney"
          [] OTHER -> 1]

NoJob == [present |-> FALSE, hour |-> 0, minute |-> 0, time |-> <<>>, ping |-> 0]

\* Outcomes of the two external effects of one reschedule_job call.
RescheduleOutcomes == {"ok", "add_job_raises", "open_raises", "dump_raises"}

\* reschedule_job(job_id, time_str, ping) on the state st = [config, file,
\* jobs, failed]; out is what scheduler.add_job and the file write do.  The
\* result also tells whether the except branch logged an error.
\* (First the variant that updates config before it calls add_job.)
reschedule_job_config_first(st, n, time_str, ping, out) ==
    IF IntRaises(Prefix(time_str, 2)) \/ IntRaises(Suffix(time_str, 2))
       THEN [st EXCEPT !.failed = TRUE]
    ELSE LET hour == IntVal(Prefix(time_str, 2))
             minute == IntVal(Suffix(time_str, 2))
             keys == job_config_map(n)
             cfg == IF keys[1] = "" \/ keys[2] = "" THEN st.config
                    ELSE [st.config EXCEPT ![keys[1]] = time_str,
                                           ![keys[2]] = ping]
             added == [st.jobs EXCEPT ![n] =
                          [present |-> TRUE, hour |-> hour, minute |-> minute,
                           time |-> time_str, ping |-> ping]]
         IN
         IF CronTriggerRaises(hour, minute) \/ out = "add_job_raises"
            THEN [st EXCEPT !.config = cfg, !.failed = TRUE]
         ELSE CASE out = "open_raises" ->
                      [st EXCEPT !.jobs = added, !.config = cfg, !.failed = TRUE]
                [] out = "dump_raises" ->
                      [st EXCEPT !.jobs = added, !.config = cfg,
                                 !.file = [valid |-> FALSE, cfg |-> st.file.cfg],
                                 !.failed = TRUE]
                [] OTHER ->
                      [st EXCEPT !.jobs = added, !.config = cfg,
                                 !.file = [valid |-> TRUE, cfg |-> cfg]]

reschedule_job(st, n, time_str, ping, out) ==
    IF IntRaises(Prefix(time_str, 2)) \/ IntRaises(Suffix(time_str, 2))
       THEN [st EXCEPT !.failed = TRUE]
    ELSE LET hour == IntVal(Prefix(time_str, 2))
             minute == IntVal(Suffix(time_str, 2))
         IN
         IF CronTriggerRaises(hour, minute) \/ out = "add_job_raises"
            THEN [st EXCEPT !.failed = TRUE]
         ELSE LET added == [st.jobs EXCEPT ![n] =
                               [present |-> TRUE, hour |-> hour, minute |-> minute,
                                time |-> time_str, ping |-> ping]]
                  keys == job_config_map(n)
              IN
              IF keys[1] = "" \/ keys[2] = ""
                 THEN [st EXCEPT !.jobs = added]
              ELSE LET cfg == [st.config EXCEPT ![keys[1]] = time_str,
                                                ![keys[2]] = ping]
                   IN CASE out = "open_raises" ->
                              [st EXCEPT !.jobs = added, !.config = cfg,
                                         !.failed = TRUE]
                        [] out = "dump_raises" ->
                              [st EXCEPT !.jobs = added, !.config = cfg,
                                         !.file = [valid |-> FALSE, cfg |-> st.file.cfg],
                                         !.failed = TRUE]
                        [] OTHER ->
                              [st EXCEPT !.jobs = added, !.config = cfg,
                                         !.file = [valid |-> TRUE, cfg |-> cfg]]

\* ------------------------------------------------------------------------
\* API client functions.  o is what the HTTP call does, the body is what a
\* 2xx response carries.  Each result tells the returned value and whether
\* logger.error was called.
\* ------------------------------------------------------------------------
HttpOutcomes == {"exception", "non2xx", "ok"}

UpperChars == <<"F", "G", "H", "I", "N", "T">>
LowerChars == <<"f", "g", "h", "i", "n", "t">>

\* str.lower() of one character.
LowerChar(c) ==
    IF \E i \in 1..Len(UpperChars) : UpperChars[i] = c
       THEN LowerChars[CHOOSE i \in 1..Len(UpperChars) : UpperChars[i] = c]
       ELSE c

lower(s) == [i \in 1..Len(s) |-> LowerChar(s[i])]

\* sub in s
Contains(s, sub) ==
    \E i \in 0..(Len(s) - Len(sub)) : SubSeq(s, i + 1, i + Len(sub)) = sub

Night == <<"n", "i", "g", "h", "t">>

\* The condition of the dict comprehension of fetch_and_cache_maps.
IsCachedMap(m) ==
    /\ m.game_mode = "warfare"
    /\ m.id # ""
    /\ m.pretty_name # <<>>
    /\ ~Contains(lower(m.pretty_name), Night)

\* The dict comprehension: a later entry with the same id overwrites.
warfare_maps(maps) ==
    LET idx == {i \in 1..Len(maps) : IsCachedMap(maps[i])}
        ids == {maps[i].id : i \in idx}
        last(k) == CHOOSE i \in idx :
                      /\ maps[i].id = k
                      /\ \A j \in idx : maps[j].id = k => j <= i
    IN [k \in ids |-> maps[last(k)].pretty_name]

\* fetch_and_cache_maps() on the cache: body.json_ok is false when
\* r.json() or the comprehension raises.
\* (First the variant without cached_maps.clear().)
fetch_and_cache_maps_no_clear(cache, o, body) ==
    IF o # "ok" \/ ~body.json_ok
       THEN [ret |-> FALSE, cache |-> cache, logged |-> TRUE]
       ELSE LET new == warfare_maps(body.maps)
            IN [ret |-> TRUE,
                cache |-> [k \in DOMAIN cache \cup DOMAIN new |->
                              IF k \in DOMAIN new THEN new[k] ELSE cache[k]],
                logged |-> FALSE]

fetch_and_cache_maps(cache, o, body) ==
    IF o # "ok" \/ ~body.json_ok
       THEN [ret |-> FALSE, cache |-> cache, logged |-> TRUE]
       ELSE [ret |-> TRUE, cache |-> warfare_maps(body.maps), logged |-> FALSE]

\* get_max_ping_autokick(): None is [none |-> TRUE].
get_max_ping_autokick(o, body) ==
    IF o # "ok" \/ ~body.json_ok
       THEN [ret |-> [none |-> TRUE, val |-> 0], logged |-> TRUE]
       ELSE [ret |-> [none |-> ~body.has_key, val |-> IF body.has_key THEN body.val ELSE 0],
             logged |-> FALSE]

\* set_max_ping_autokick(ping): returns r.ok.
set_max_ping_autokick(ping, o) ==
    IF o = "exception" THEN [ret |-> FALSE, logged |-> TRUE, sent |-> ping]
    ELSE [ret |-> (o = "ok"), logged |-> FALSE, sent |-> ping]

IsTempBan(b) == b.type = "temp" /\ b.player_id # ""

\* [b for b in bans if b.get("type") == "temp" and b.get("player_id")]
RECURSIVE TempBans(_)
TempBans(s) ==
    IF s = <<>> THEN <<>>
    ELSE IF IsTempBan(Head(s)) THEN <<Head(s)>> \o TempBans(Tail(s))
    ELSE TempBans(Tail(s))

reversed(s) == [i \in 1..Len(s) |-> s[Len(s) + 1 - i]]

\* get_recent_bans(limit)
get_recent_bans(limit, o, body) ==
    IF o # "ok" \/ ~body.json_ok
       THEN [ret |-> <<>>, logged |-> TRUE]
       ELSE [ret |-> Prefix(reversed(TempBans(body.bans)), limit),
             logged |-> FALSE]

\* get_player_name(player_id): the name seen last, the first of them when
\* several share the latest last_seen (list.sort is stable).
get_player_name(o, body) ==
    IF o # "ok" \/ ~body.json_ok
       THEN [ret |-> "Unknown", logged |-> TRUE]
    ELSE IF body.names = <<>> THEN [ret |-> "Unknown", logged |-> FALSE]
    ELSE LET first == CHOOSE i \in 1..Len(body.names) :
                         /\ \A j \in 1..Len(body.names) :
                               body.names[j].last_seen <= body.names[i].last_seen
                         /\ \A j \in 1..(i - 1) :
                               body.names[j].last_seen < body.names[i].last_seen
         IN [ret |-> body.names[first].name, logged |-> FALSE]

\* unban_player(player_id): returns r.ok.
unban_player(o) ==
    IF o = "exception" THEN [ret |-> FALSE, logged |-> TRUE]
    ELSE [ret |-> (o = "ok"), logged |-> FALSE]

\* ------------------------------------------------------------------------
\* State
\* ------------------------------------------------------------------------
VARIABLES
    config,       \* the module-level config dictionary
    file,         \* the file at CONFIG_PATH: [valid, cfg]
    jobs,         \* the scheduler's job table, by job number
    running,      \* scheduler.running
    cached_maps,  \* the module-level map-name cache, id -> pretty_name
    ready,        \* position of the on_ready handler
    fetchCount,   \* invocations of fetch_and_cache_maps so far
    cmds,         \* number of command handlers waiting in their reply's await
    lastCmd,      \* the command invocation of the last step, if it was one
    firing,       \* per job: position of the run of scheduled_ping_job
    lastFire,     \* the cron run of the last step, if it was one
    apiIn,        \* inputs of one API client function call
    apiCall,      \* result of that call
    serverBans,   \* the game server's ban list, oldest first
    shown,        \* the player ids numbered in the latest /bans reply
    flow,         \* the player selection of a /banplayer or /bantemp in progress
    boot          \* the files load_config meets and how the module's start ends

\* What lies outside the bot process and what the later sections add.
extVars == <<serverBans, shown, flow, boot>>

vars == <<config, file, jobs, running, cached_maps, ready, fetchCount, cmds,
          lastCmd, firing, lastFire, apiIn, apiCall, extVars>>

\* ------------------------------------------------------------------------
\* Inputs
\* ------------------------------------------------------------------------
JobArgs == {1, 2, 3}

TimeArgs == {<<"2", "3", "5", "9">>,
             <<"2", "4", "0", "0">>, <<"1", "2", "6", "0">>,
             <<"1", "2", "3">>, <<"1", "2", "a", "4">>,
             <<"1", "^2", "3", "4">>}

PingArgs == {0, 300}

\* The times and pings given to the commands that are interleaved with cron
\* runs and on_ready.
SchedTimeArgs == {<<"2", "3", "5", "9">>}
SchedPingArgs == {300}

MapIds == {"", "a", "b"}
GameModes == {"warfare", "offensive"}
MapNames == {<<>>, <<"F", "o", "y">>, <<"U", "t", "a", "h">>,
             <<"F", "N", "i", "g", "h", "T">>}

MapRecords == [id : MapIds, game_mode : GameModes, pretty_name : MapNames]

SeqsUpTo(S, n) == UNION {[1..k -> S] : k \in 0..n}

NoBody == [json_ok |-> FALSE, maps |-> <<>>]

\* Responses of get_maps the startup handler meets.
StartupResponses ==
    {<<"exception", NoBody>>, <<"non2xx", NoBody>>,
     <<"ok", [json_ok |-> TRUE,
              maps |-> <<[id |-> "a", game_mode |-> "warfare",
                          pretty_name |-> <<"F", "o", "y">>]>>]>>}

\* requests counts the handler's requests to the game-server API, responses
\* its uses of interaction.response.  endpoint and player_id tell the ban or
\* unban request the handler made, index the argument of /unban, duration
\* the text typed into the DurationModal and hours what was sent of it,
\* channel whether a channel-restricted command ran inside its channel.
NoLastCmd == [name |-> "none", job |-> 0, time |-> <<>>, ping |-> 0,
              ext |-> "none", reply |-> "none", crashed |-> FALSE,
              requests |-> 0, responses |-> 0,
              endpoint |-> "none", player_id |-> "", index |-> 0,
              duration |-> <<>>, hours |-> 0, channel |-> "none"]

NoFire == [step |-> "none", job |-> 0, requests |-> 0, ping |-> 0,
           ok |-> FALSE, channel |-> FALSE, warned |-> FALSE,
           announced |-> FALSE]

\* A job's run: where it is, and what the run has seen so far.
NoRun == [pc |-> "idle", ok |-> FALSE, channel |-> FALSE]

NoApiIn == [fn |-> "none", outcome |-> "ok", json_ok |-> TRUE, maps |-> <<>>,
            cache |-> <<>>, has_key |-> FALSE, val |-> 0, bans |-> <<>>,
            names |-> <<>>]

NoApiCall == [done |-> FALSE, sentinel |-> FALSE, logged |-> FALSE]

EmptyCache == [k \in {} |-> <<>>]

\* cmd is the command the view belongs to, filtered the (name, id) pairs
\* its dropdown offers, player_id the selection a modal was opened for.
NoFlow == [cmd |-> "none", pc |-> "idle", prefix |-> <<>>, filtered |-> <<>>,
           player_id |-> ""]

\* The settings the module reads from the loaded configuration; "None" is
\* a key that is absent or null.
Settings == [DISCORD_TOKEN : {"", "tok"}, CHANNEL_ID : {"None", "1"},
             API_BASE_URL : {"", "url"}, API_BEARER_TOKEN : {"", "tok"},
             DB_URL : {"None", "db"}]

\* The dictionary load_config returns when it finds no file.
Defaults == [DISCORD_TOKEN |-> "", CHANNEL_ID |-> "None", API_BASE_URL |-> "",
             API_BEARER_TOKEN |-> "", DB_URL |-> "None"]

Complete == [DISCORD_TOKEN |-> "tok", CHANNEL_ID |-> "1",
             API_BASE_URL |-> "url", API_BEARER_TOKEN |-> "tok",
             DB_URL |-> "db"]

\* What is at one of the two paths: nothing, something open() or
\* json5.load() fails on, or a file with settings.
PathStates ==
    {[state |-> st, cfg |-> Defaults] :
        st \in {"missing", "unreadable", "malformed"}}
    \cup {[state |-> "found", cfg |-> c] : c \in Settings}

\* The bot of the other sections has started from a complete file at
\* CONFIG_PATH.
Started == [paths |-> <<[state |-> "found", cfg |-> Complete],
                        [state |-> "missing", cfg |-> Defaults]>>,
            done |-> TRUE, stage |-> "started", source |-> 1,
            cfg |-> Complete]

ExtInit ==
    /\ serverBans = <<>>
    /\ shown = <<>>
    /\ flow = NoFlow
    /\ boot = Started

Init ==
    /\ config = InitConfig
    /\ file = [valid |-> TRUE, cfg |-> InitConfig]
    /\ jobs = [n \in JobNums |-> NoJob]
    /\ running = FALSE
    /\ cached_maps = EmptyCache
    /\ ready = "idle"
    /\ fetchCount = 0
    /\ cmds = 0
    /\ lastCmd = NoLastCmd
    /\ firing = [n \in JobNums |-> NoRun]
    /\ lastFire = NoFire
    /\ apiIn = NoApiIn
    /\ apiCall = NoApiCall
    /\ ExtInit

\* ------------------------------------------------------------------------
\* /setscheduledtime
\* ------------------------------------------------------------------------
\* The handler up to its reply: the validation, the reschedule_job call and
\* the reply it goes on to send.  "crashed" is the ValueError of line 346,
\* which nothing catches.
setscheduledtime_body(st, job, time, ping, out) ==
    IF ~isdigit(time) \/ Len(time) # 4
       THEN [st |-> st, reply |-> "warning", crashed |-> FALSE, called |-> FALSE]
    ELSE IF IntRaises(Prefix(time, 2)) \/ IntRaises(Suffix(time, 2))
       THEN [st |-> st, reply |-> "none", crashed |-> TRUE, called |-> FALSE]
    ELSE LET hour == IntVal(Prefix(time, 2))
             minute == IntVal(Suffix(time, 2))
         IN
         IF ~(0 <= hour /\ hour < 24 /\ 0 <= minute /\ minute < 60)
            THEN [st |-> st, reply |-> "warning", crashed |-> FALSE, called |-> FALSE]
         ELSE IF job = 1 \/ job = 2
            THEN [st |-> reschedule_job(st, job, time, ping, out),
                  reply |-> "success", crashed |-> FALSE, called |-> TRUE]
         ELSE [st |-> st, reply |-> "warning", crashed |-> FALSE, called |-> FALSE]

setscheduledtime(job, time, ping, out) ==
    /\ cmds < MaxCmds
    /\ \E r \in {setscheduledtime_body(
                      [config |-> config, file |-> file, jobs |-> jobs,
                       failed |-> FALSE],
                      job, time, ping, out)} :
       /\ config' = r.st.config
       /\ file' = r.st.file
       /\ jobs' = r.st.jobs
       /\ lastCmd' = [NoLastCmd EXCEPT
                         !.name = "setscheduledtime", !.job = job,
                         !.time = time, !.ping = ping,
                         !.ext = IF ~r.called THEN "none"
                                 ELSE IF r.st.failed THEN "failed" ELSE "ok",
                         !.reply = r.reply, !.crashed = r.crashed,
                         !.responses = IF r.crashed THEN 0 ELSE 1]
       /\ cmds' = IF r.crashed THEN cmds ELSE cmds + 1
    /\ lastFire' = NoFire
    /\ UNCHANGED <<running, cached_maps, ready, fetchCount,
                   firing, apiIn, apiCall, extVars>>

\* The await of interaction.response.send_message returns and the handler ends.
reply_sent ==
    /\ cmds > 0
    /\ cmds' = cmds - 1
    /\ lastCmd' = NoLastCmd
    /\ lastFire' = NoFire
    /\ UNCHANGED <<config, file, jobs, running, cached_maps, ready,
                   fetchCount, firing, apiIn, apiCall, extVars>>

\* ------------------------------------------------------------------------
\* Commands that keep no state: one action is the whole handler.
\* ------------------------------------------------------------------------
SettingsBodies ==
    {[json_ok |-> FALSE, has_key |-> FALSE, val |-> 0],
     [json_ok |-> TRUE, has_key |-> FALSE, val |-> 0],
     [json_ok |-> TRUE, has_key |-> TRUE, val |-> 500]}

Stateless(rec) ==
    /\ cmds < MaxCmds
    /\ lastCmd' = rec
    /\ lastFire' = NoFire
    /\ UNCHANGED <<config, file, jobs, running, cached_maps, ready,
                   fetchCount, cmds, firing, apiIn, apiCall, extVars>>

\* /curping
curping(o, body) ==
    LET r == get_max_ping_autokick(o, body)
    IN Stateless([NoLastCmd EXCEPT
                     !.name = "curping", !.requests = 1, !.responses = 1,
                     !.ext = IF r.logged THEN "failed" ELSE "ok",
                     !.reply = IF ~r.ret.none THEN "success" ELSE "failure"])

\* /online
online(o, body) ==
    LET r == get_max_ping_autokick(o, body)
    IN Stateless([NoLastCmd EXCEPT
                     !.name = "online", !.requests = 1, !.responses = 1,
                     !.ext = IF r.logged THEN "failed" ELSE "ok",
                     !.reply = IF ~r.ret.none THEN "success" ELSE "failure"])

\* /setping
setping(ping, o) ==
    IF ping <= 0 \/ ping > 10000
       THEN Stateless([NoLastCmd EXCEPT !.name = "setping", !.ping = ping,
                                        !.responses = 1,
                                        !.reply = "warning"])
    ELSE LET r == set_max_ping_autokick(ping, o)
         IN Stateless([NoLastCmd EXCEPT
                          !.name = "setping", !.ping = ping,
                          !.requests = 1, !.responses = 1,
                          !.ext = IF r.ret THEN "ok" ELSE "failed",
                          !.reply = IF r.ret THEN "success" ELSE "failure"])

\* Where a command was invoked, relative to the channel it compares with.
Where(inChannel) == IF inChannel THEN "inside" ELSE "outside"

\* /showvips: the name CHANNEL_ID_VIPstats of line 530 is bound nowhere, so
\* the first statement raises NameError.
show_vips(inChannel) ==
    Stateless([NoLastCmd EXCEPT !.name = "showvips", !.crashed = TRUE,
                                !.channel = Where(inChannel)])

DbOutcomes == {"raises", "empty", "rows"}

\* /playerstats: the database query of lines 646-661 is in no try block.
playerstats(inChannel, db) ==
    IF ~inChannel
       THEN Stateless([NoLastCmd EXCEPT !.name = "playerstats",
                                        !.channel = "outside",
                                        !.responses = 1, !.reply = "warning"])
    ELSE IF db = "raises"
       THEN Stateless([NoLastCmd EXCEPT !.name = "playerstats", !.ext = "failed",
                                        !.channel = "inside",
                                        !.responses = 1, !.crashed = TRUE])
    ELSE Stateless([NoLastCmd EXCEPT !.name = "playerstats", !.ext = "ok",
                                     !.channel = "inside",
                                     !.responses = 1, !.reply = "success"])

\* /curscheduledtime: reads the four schedule values of config and replies.
\* t1[:2] raises TypeError when a time of the configuration is no string;
\* the times of this model are strings.
curscheduledtime ==
    Stateless([NoLastCmd EXCEPT !.name = "curscheduledtime", !.responses = 1,
                                !.reply = "success"])

\* /help
help_command ==
    Stateless([NoLastCmd EXCEPT !.name = "help", !.responses = 1,
                                !.reply = "success"])

\* ------------------------------------------------------------------------
\* Cron job function
\* ------------------------------------------------------------------------
\* scheduled_ping_job(job_id, time_str, ping) up to its await: the request
\* it makes, what it logs and whether it goes on to ch.send().
scheduled_ping_job_retry(job_id, ping, o, chFound) ==
    LET r == set_max_ping_autokick(ping, o)
    IN [requests |-> IF r.ret THEN 1 ELSE 2, ping |-> r.sent, ok |-> r.ret,
        channel |-> r.ret /\ chFound, warned |-> ~r.ret,
        sending |-> r.ret /\ chFound]

scheduled_ping_job(job_id, ping, o, chFound) ==
    LET r == set_max_ping_autokick(ping, o)
    IN [requests |-> 1, ping |-> r.sent, ok |-> r.ret,
        channel |-> r.ret /\ chFound, warned |-> ~r.ret,
        sending |-> r.ret /\ chFound]

\* The scheduler runs job n with the args its add_job call was given.
\* A job whose previous run has not ended is not run again (max_instances
\* is left at 1).
fire_job_other_args(n, o, chFound) ==
    /\ running
    /\ jobs[n].present
    /\ firing[n].pc = "idle"
    /\ \E r \in {scheduled_ping_job(n, jobs[3 - n].ping, o, chFound)} :
          /\ firing' = [firing EXCEPT ![n] =
                           IF r.sending
                              THEN [pc |-> "sending", ok |-> r.ok,
                                    channel |-> r.channel]
                              ELSE NoRun]
          /\ lastFire' = [step |-> "run", job |-> n, requests |-> r.requests,
                          ping |-> r.ping, ok |-> r.ok, channel |-> r.channel,
                          warned |-> r.warned, announced |-> FALSE]
    /\ lastCmd' = NoLastCmd
    /\ UNCHANGED <<config, file, jobs, running, cached_maps, ready,
                   fetchCount, cmds, apiIn, apiCall, extVars>>

fire_job(n, o, chFound) ==
    /\ running
    /\ jobs[n].present
    /\ firing[n].pc = "idle"
    /\ \E r \in {scheduled_ping_job(n, jobs[n].ping, o, chFound)} :
          /\ firing' = [firing EXCEPT ![n] =
                           IF r.sending
                              THEN [pc |-> "sending", ok |-> r.ok,
                                    channel |-> r.channel]
                              ELSE NoRun]
          /\ lastFire' = [step |-> "run", job |-> n, requests |-> r.requests,
                          ping |-> r.ping, ok |-> r.ok, channel |-> r.channel,
                          warned |-> r.warned, announced |-> FALSE]
    /\ lastCmd' = NoLastCmd
    /\ UNCHANGED <<config, file, jobs, running, cached_maps, ready,
                   fetchCount, cmds, apiIn, apiCall, extVars>>

\* await ch.send(...) returns (sent) or raises; the run ends either way.
announce_sent(n, sent) ==
    /\ firing[n].pc = "sending"
    /\ firing' = [firing EXCEPT ![n] = NoRun]
    /\ lastFire' = [NoFire EXCEPT !.step = "announce", !.job = n,
                                  !.ok = firing[n].ok,
                                  !.channel = firing[n].channel,
                                  !.announced = sent]
    /\ lastCmd' = NoLastCmd
    /\ UNCHANGED <<config, file, jobs, running, cached_maps, ready,
                   fetchCount, cmds, apiIn, apiCall, extVars>>

\* ------------------------------------------------------------------------
\* on_ready
\* ------------------------------------------------------------------------
\* The gateway delivers READY; the handler runs up to await tree.sync().
on_ready_start ==
    /\ ready = "idle"
    /\ fetchCount < MaxFetches
    /\ ready' = "syncing"
    /\ lastCmd' = NoLastCmd
    /\ lastFire' = NoFire
    /\ UNCHANGED <<config, file, jobs, running, cached_maps, fetchCount,
                   cmds, firing, apiIn, apiCall, extVars>>

\* tree.sync() raises: the except branch logs and the handler ends.
on_ready_sync_raises ==
    /\ ready = "syncing"
    /\ ready' = "idle"
    /\ lastCmd' = NoLastCmd
    /\ lastFire' = NoFire
    /\ UNCHANGED <<config, file, jobs, running, cached_maps, fetchCount, cmds,
                   firing, apiIn, apiCall, extVars>>

\* tree.sync() returns: lines 810-818, up to await client.fetch_channel().
on_ready_body(o, body, out1, out2) ==
    /\ ready = "syncing"
    /\ cached_maps' = fetch_and_cache_maps(cached_maps, o, body).cache
    /\ fetchCount' = fetchCount + 1
    /\ \E st1 \in {reschedule_job(
                        [config |-> config, file |-> file, jobs |-> jobs,
                         failed |-> FALSE],
                        1, config["SCHEDULED_JOB_1_TIME"],
                        config["SCHEDULED_JOB_1_PING"], out1)} :
       \E st2 \in {reschedule_job(
                        [st1 EXCEPT !.failed = FALSE],
                        2, st1.config["SCHEDULED_JOB_2_TIME"],
                        st1.config["SCHEDULED_JOB_2_PING"], out2)} :
          /\ config' = st2.config
          /\ file' = st2.file
          /\ jobs' = st2.jobs
    /\ running' = TRUE
    /\ ready' = "notifying"
    /\ lastCmd' = NoLastCmd
    /\ lastFire' = NoFire
    /\ UNCHANGED <<cmds, firing, apiIn, apiCall, extVars>>

\* The channel notification of lines 822-824 returns or raises.
on_ready_notify ==
    /\ ready = "notifying"
    /\ ready' = "idle"
    /\ lastCmd' = NoLastCmd
    /\ lastFire' = NoFire
    /\ UNCHANGED <<config, file, jobs, running, cached_maps, fetchCount, cmds,
                   firing, apiIn, apiCall, extVars>>

Next ==
    \/ \E job \in JobArgs, time \in SchedTimeArgs, ping \in SchedPingArgs,
          out \in RescheduleOutcomes : setscheduledtime(job, time, ping, out)
    \/ reply_sent
    \/ \E n \in JobNums, o \in HttpOutcomes, chFound \in BOOLEAN :
          fire_job(n, o, chFound)
    \/ \E n \in JobNums, sent \in BOOLEAN : announce_sent(n, sent)
    \/ on_ready_start
    \/ on_ready_sync_raises
    \/ \E resp \in StartupResponses,
          out1 \in RescheduleOutcomes, out2 \in RescheduleOutcomes :
          on_ready_body(resp[1], resp[2], out1, out2)
    \/ on_ready_notify

Spec == Init /\ [][Next]_vars

\* The command handlers alone.
NextCmds ==
    \/ \E job \in JobArgs, time \in TimeArgs, ping \in PingArgs,
          out \in RescheduleOutcomes : setscheduledtime(job, time, ping, out)
    \/ reply_sent
    \/ \E o \in HttpOutcomes, body \in SettingsBodies : curping(o, body)
    \/ \E o \in HttpOutcomes, body \in SettingsBodies : online(o, body)
    \/ \E ping \in PingArgs, o \in HttpOutcomes : setping(ping, o)
    \/ \E inChannel \in BOOLEAN : show_vips(inChannel)
    \/ \E inChannel \in BOOLEAN, db \in DbOutcomes : playerstats(inChannel, db)
    \/ curscheduledtime
    \/ help_command

SpecCmds == Init /\ [][NextCmds]_vars

\* ------------------------------------------------------------------------
\* The API client functions on their own: one call on drawn inputs
\* ------------------------------------------------------------------------
MaxBans == 2        \* bans in one get_bans response
MaxNames == 2       \* names in one get_player_profile response

PriorCaches ==
    {EmptyCache,
     [k \in {"a"} |-> <<"F", "o", "y">>],
     [k \in {"a", "b"} |-> <<"U", "t", "a", "h">>]}

BanRecords == [type : {"temp", "perma"}, player_id : {"", "p1", "p2"}]

ProfileNames == [name : {"Al", "Bo"}, last_seen : {1, 2}]

FailedHttp == {"exception", "non2xx"}

MapsInputs ==
    {[NoApiIn EXCEPT !.fn = "fetch_and_cache_maps", !.outcome = o, !.cache = c]
        : o \in FailedHttp, c \in PriorCaches}
    \cup {[NoApiIn EXCEPT !.fn = "fetch_and_cache_maps", !.json_ok = FALSE,
                          !.cache = c] : c \in PriorCaches}
    \cup {[NoApiIn EXCEPT !.fn = "fetch_and_cache_maps", !.maps = m, !.cache = c]
        : m \in SeqsUpTo(MapRecords, MaxMaps), c \in PriorCaches}

SettingsInputs ==
    {[NoApiIn EXCEPT !.fn = "get_max_ping_autokick", !.outcome = o,
                     !.json_ok = b.json_ok, !.has_key = b.has_key, !.val = b.val]
        : o \in HttpOutcomes, b \in SettingsBodies}

SetPingInputs ==
    {[NoApiIn EXCEPT !.fn = "set_max_ping_autokick", !.outcome = o, !.val = p]
        : o \in HttpOutcomes, p \in PingArgs}

BansInputs ==
    {[NoApiIn EXCEPT !.fn = "get_recent_bans", !.outcome = o, !.json_ok = j]
        : o \in HttpOutcomes, j \in BOOLEAN}
    \cup {[NoApiIn EXCEPT !.fn = "get_recent_bans", !.bans = b]
        : b \in SeqsUpTo(BanRecords, MaxBans)}

NameInputs ==
    {[NoApiIn EXCEPT !.fn = "get_player_name", !.outcome = o, !.json_ok = j]
        : o \in HttpOutcomes, j \in BOOLEAN}
    \cup {[NoApiIn EXCEPT !.fn = "get_player_name", !.names = n]
        : n \in SeqsUpTo(ProfileNames, MaxNames)}

UnbanInputs ==
    {[NoApiIn EXCEPT !.fn = "unban_player", !.outcome = o] : o \in HttpOutcomes}

ApiInputs == MapsInputs \cup SettingsInputs \cup SetPingInputs \cup BansInputs
             \cup NameInputs \cup UnbanInputs

InitApi ==
    /\ apiIn \in ApiInputs
    /\ apiCall = NoApiCall
    /\ cached_maps = apiIn.cache
    /\ config = InitConfig
    /\ file = [valid |-> TRUE, cfg |-> InitConfig]
    /\ jobs = [n \in JobNums |-> NoJob]
    /\ running = FALSE
    /\ ready = "idle"
    /\ fetchCount = 0
    /\ cmds = 0
    /\ lastCmd = NoLastCmd
    /\ firing = [n \in JobNums |-> NoRun]
    /\ lastFire = NoFire
    /\ ExtInit

botVars == <<config, file, jobs, running, ready, cmds, lastCmd, firing, lastFire>>

ApiBody == [json_ok |-> apiIn.json_ok, maps |-> apiIn.maps,
            has_key |-> apiIn.has_key, val |-> apiIn.val,
            bans |-> apiIn.bans, names |-> apiIn.names]

call_fetch_and_cache_maps ==
    /\ apiIn.fn = "fetch_and_cache_maps" /\ ~apiCall.done
    /\ \E r \in {fetch_and_cache_maps(cached_maps, apiIn.outcome, ApiBody)} :
          /\ cached_maps' = r.cache
          /\ apiCall' = [done |-> TRUE, sentinel |-> (r.ret = FALSE),
                         logged |-> r.logged]
    /\ fetchCount' = fetchCount + 1
    /\ UNCHANGED <<apiIn, botVars, extVars>>

call_get_max_ping_autokick ==
    /\ apiIn.fn = "get_max_ping_autokick" /\ ~apiCall.done
    /\ \E r \in {get_max_ping_autokick(apiIn.outcome, ApiBody)} :
          apiCall' = [done |-> TRUE, sentinel |-> r.ret.none, logged |-> r.logged]
    /\ UNCHANGED <<apiIn, cached_maps, fetchCount, botVars, extVars>>

call_set_max_ping_autokick ==
    /\ apiIn.fn = "set_max_ping_autokick" /\ ~apiCall.done
    /\ \E r \in {set_max_ping_autokick(apiIn.val, apiIn.outcome)} :
          apiCall' = [done |-> TRUE, sentinel |-> (r.ret = FALSE),
                      logged |-> r.logged]
    /\ UNCHANGED <<apiIn, cached_maps, fetchCount, botVars, extVars>>

call_get_recent_bans ==
    /\ apiIn.fn = "get_recent_bans" /\ ~apiCall.done
    /\ \E r \in {get_recent_bans(5, apiIn.outcome, ApiBody)} :
          apiCall' = [done |-> TRUE, sentinel |-> (r.ret = <<>>),
                      logged |-> r.logged]
    /\ UNCHANGED <<apiIn, cached_maps, fetchCount, botVars, extVars>>

call_get_player_name ==
    /\ apiIn.fn = "get_player_name" /\ ~apiCall.done
    /\ \E r \in {get_player_name(apiIn.outcome, ApiBody)} :
          apiCall' = [done |-> TRUE, sentinel |-> (r.ret = "Unknown"),
                      logged |-> r.logged]
    /\ UNCHANGED <<apiIn, cached_maps, fetchCount, botVars, extVars>>

call_unban_player ==
    /\ apiIn.fn = "unban_player" /\ ~apiCall.done
    /\ \E r \in {unban_player(apiIn.outcome)} :
          apiCall' = [done |-> TRUE, sentinel |-> (r.ret = FALSE),
                      logged |-> r.logged]
    /\ UNCHANGED <<apiIn, cached_maps, fetchCount, botVars, extVars>>

NextApi ==
    \/ call_fetch_and_cache_maps
    \/ call_get_max_ping_autokick
    \/ call_set_max_ping_autokick
    \/ call_get_recent_bans
    \/ call_get_player_name
    \/ call_unban_player

SpecApi == InitApi /\ [][NextApi]_vars

\* ------------------------------------------------------------------------
\* /bans and /unban, and the ban list of the game server
\* ------------------------------------------------------------------------
ServerBanRecords == [type : {"temp", "perma"}, player_id : {"p1", "p2"}]

PlayerIds(data) == [i \in 1..Len(data) |-> data[i].player_id]

\* What get_bans answers with at this moment.
BansBody == [json_ok |-> TRUE, bans |-> serverBans]

\* /bans: get_recent_bans(), the filter of lines 366-368 and one
\* get_player_name() for each of the first five; the reply numbers them
\* from 1.  The outcome of the name lookups changes the names shown only.
bans(o) ==
    /\ cmds < MaxCmds
    /\ \E data \in {get_recent_bans(5, o, BansBody).ret} :
       \E listed \in {Prefix(TempBans(data), 5)} :
          /\ shown' = PlayerIds(listed)
          /\ lastCmd' = [NoLastCmd EXCEPT
                            !.name = "bans",
                            !.requests = 1 + Len(listed),
                            !.responses = 1,
                            !.ext = IF o = "ok" THEN "ok" ELSE "failed",
                            !.reply = IF listed = <<>> THEN "warning"
                                      ELSE "success"]
    /\ lastFire' = NoFire
    /\ UNCHANGED <<config, file, jobs, running, cached_maps, ready,
                   fetchCount, cmds, firing, apiIn, apiCall,
                   serverBans, flow, boot>>

\* The server drops the temp bans of a player it is asked to unban.
RECURSIVE WithoutTempBansOf(_, _)
WithoutTempBansOf(s, pid) ==
    IF s = <<>> THEN <<>>
    ELSE IF Head(s).type = "temp" /\ Head(s).player_id = pid
       THEN WithoutTempBansOf(Tail(s), pid)
    ELSE <<Head(s)>> \o WithoutTempBansOf(Tail(s), pid)

\* /unban index: get_recent_bans() again, then get_player_name() and
\* unban_player() for the entry at the index.  uo is what the unban request
\* does; a request that fails leaves the server as it is.
\* (First the variant that repeats a failed unban request once.)
unban_with_retry(index, o, uo) ==
    /\ cmds < MaxCmds
    /\ \E data \in {get_recent_bans(5, o, BansBody).ret} :
          IF data = <<>>
             THEN /\ lastCmd' = [NoLastCmd EXCEPT
                                    !.name = "unban", !.index = index,
                                    !.requests = 1, !.responses = 1,
                                    !.ext = IF o = "ok" THEN "ok" ELSE "failed",
                                    !.reply = "warning"]
                  /\ serverBans' = serverBans
          ELSE IF 1 <= index /\ index <= Len(data)
             THEN \E r \in {unban_player(uo)} :
                  /\ serverBans' =
                        IF r.ret
                           THEN WithoutTempBansOf(serverBans,
                                                  data[index].player_id)
                           ELSE serverBans
                  /\ lastCmd' = [NoLastCmd EXCEPT
                                    !.name = "unban", !.index = index,
                                    !.endpoint = "unban",
                                    !.player_id = data[index].player_id,
                                    !.requests = IF r.ret THEN 3 ELSE 4,
                                    !.responses = 1,
                                    !.ext = IF r.ret THEN "ok" ELSE "failed",
                                    !.reply = IF r.ret THEN "success"
                                              ELSE "failure"]
          ELSE /\ lastCmd' = [NoLastCmd EXCEPT
                                 !.name = "unban", !.index = index,
                                 !.requests = 1, !.responses = 1,
                                 !.ext = "ok",
                                 !.reply = "warning"]
               /\ serverBans' = serverBans
    /\ lastFire' = NoFire
    /\ UNCHANGED <<config, file, jobs, running, cached_maps, ready,
                   fetchCount, cmds, firing, apiIn, apiCall, shown,
                   flow, boot>>

unban(index, o, uo) ==
    /\ cmds < MaxCmds
    /\ \E data \in {get_recent_bans(5, o, BansBody).ret} :
          IF data = <<>>
             THEN /\ lastCmd' = [NoLastCmd EXCEPT
                                    !.name = "unban", !.index = index,
                                    !.requests = 1, !.responses = 1,
                                    !.ext = IF o = "ok" THEN "ok" ELSE "failed",
                                    !.reply = "warning"]
                  /\ serverBans' = serverBans
          ELSE IF 1 <= index /\ index <= Len(data)
             THEN \E r \in {unban_player(uo)} :
                  /\ serverBans' =
                        IF r.ret
                           THEN WithoutTempBansOf(serverBans,
                                                  data[index].player_id)
                           ELSE serverBans
                  /\ lastCmd' = [NoLastCmd EXCEPT
                                    !.name = "unban", !.index = index,
                                    !.endpoint = "unban",
                                    !.player_id = data[index].player_id,
                                    !.requests = 3, !.responses = 1,
                                    !.ext = IF r.ret THEN "ok" ELSE "failed",
                                    !.reply = IF r.ret THEN "success"
                                              ELSE "failure"]
          ELSE /\ lastCmd' = [NoLastCmd EXCEPT
                                 !.name = "unban", !.index = index,
                                 !.requests = 1, !.responses = 1,
                                 !.ext = "ok",
                                 !.reply = "warning"]
               /\ serverBans' = serverBans
    /\ lastFire' = NoFire
    /\ UNCHANGED <<config, file, jobs, running, cached_maps, ready,
                   fetchCount, cmds, firing, apiIn, apiCall, shown,
                   flow, boot>>

\* Somebody else (another admin, the game server's votekick, an expiry)
\* adds a ban to the server's list or takes one off it.
server_adds_ban(b) ==
    /\ Len(serverBans) < MaxBans
    /\ serverBans' = Append(serverBans, b)
    /\ lastCmd' = NoLastCmd
    /\ lastFire' = NoFire
    /\ UNCHANGED <<config, file, jobs, running, cached_maps, ready,
                   fetchCount, cmds, firing, apiIn, apiCall, shown,
                   flow, boot>>

server_drops_ban(i) ==
    /\ i \in 1..Len(serverBans)
    /\ serverBans' = [j \in 1..(Len(serverBans) - 1) |->
                         IF j < i THEN serverBans[j] ELSE serverBans[j + 1]]
    /\ lastCmd' = NoLastCmd
    /\ lastFire' = NoFire
    /\ UNCHANGED <<config, file, jobs, running, cached_maps, ready,
                   fetchCount, cmds, firing, apiIn, apiCall, shown,
                   flow, boot>>

UnbanIndexes == {0, 1, 2, 3}

\* ------------------------------------------------------------------------
\* /banplayer and /bantemp: scoreboard, dropdown, modal, ban request
\* ------------------------------------------------------------------------
MaxPlayers == 2     \* players on a scoreboard that is not the crowded one

\* s.startswith(prefix)
startswith(s, prefix) ==
    Len(prefix) <= Len(s) /\ SubSeq(s, 1, Len(prefix)) = prefix

\* The list comprehension of lines 246-249 and 458-461.
RECURSIVE filtered(_, _)
filtered(stats, name_prefix) ==
    IF stats = <<>> THEN <<>>
    ELSE IF startswith(lower(Head(stats).player), lower(name_prefix))
       THEN <<Head(stats)>> \o filtered(Tail(stats), name_prefix)
    ELSE filtered(Tail(stats), name_prefix)

\* str.strip() for blanks.
RECURSIVE strip(_)
strip(s) ==
    IF s = <<>> THEN s
    ELSE IF Head(s) = " " THEN strip(Tail(s))
    ELSE IF s[Len(s)] = " " THEN strip(SubSeq(s, 1, Len(s) - 1))
    ELSE s

\* int(text) for a text that may carry a sign.
Unsigned(s) == IF s # <<>> /\ Head(s) \in {"+", "-"} THEN Tail(s) ELSE s

SignedIntRaises(s) == IntRaises(Unsigned(s))

SignedIntVal(s) ==
    IF s # <<>> /\ Head(s) = "-" THEN 0 - IntVal(Unsigned(s))
    ELSE IntVal(Unsigned(s))

\* The first steps of both commands: defer, the scoreboard request, the
\* filter, and the followup that carries the dropdown or says why not.
select_player(cmd, name_prefix, o, body) ==
    /\ flow.pc = "idle"
    /\ lastFire' = NoFire
    /\ IF o # "ok" \/ ~body.json_ok
          THEN /\ flow' = NoFlow
               /\ lastCmd' = [NoLastCmd EXCEPT
                                 !.name = cmd, !.requests = 1, !.responses = 1,
                                 !.ext = "failed", !.reply = "failure"]
       ELSE \E f \in {filtered(body.stats, name_prefix)} :
          IF f = <<>> \/ Len(f) > 25
             THEN /\ flow' = NoFlow
                  /\ lastCmd' = [NoLastCmd EXCEPT
                                    !.name = cmd, !.requests = 1,
                                    !.responses = 1, !.ext = "ok",
                                    !.reply = "warning"]
          ELSE /\ flow' = [cmd |-> cmd, pc |-> "selecting",
                           prefix |-> name_prefix, filtered |-> f,
                           player_id |-> ""]
               /\ lastCmd' = [NoLastCmd EXCEPT
                                 !.name = cmd, !.requests = 1, !.responses = 1,
                                 !.ext = "ok", !.reply = "success"]
    /\ UNCHANGED <<config, file, jobs, running, cached_maps, ready,
                   fetchCount, cmds, firing, apiIn, apiCall,
                   serverBans, shown, boot>>

banplayer(name_prefix, o, body) ==
    select_player("banplayer", name_prefix, o, body)

bantemp(name_prefix, o, body) ==
    select_player("bantemp", name_prefix, o, body)

\* PlayerDropdown.callback: the user picks option i; the handler answers
\* with the modal.  The view stays up, so the user may pick again.
PlayerDropdown_callback(i) ==
    /\ flow.pc \in {"selecting", "modal"}
    /\ i \in 1..Len(flow.filtered)
    /\ flow' = [flow EXCEPT !.pc = "modal",
                            !.player_id = flow.filtered[i].player_id]
    /\ lastCmd' = [NoLastCmd EXCEPT !.name = "callback", !.responses = 1,
                                    !.reply = "modal"]
    /\ lastFire' = NoFire
    /\ UNCHANGED <<config, file, jobs, running, cached_maps, ready,
                   fetchCount, cmds, firing, apiIn, apiCall,
                   serverBans, shown, boot>>

\* The view times out (30 s) or the user closes the modal and walks away.
flow_abandoned ==
    /\ flow.pc \in {"selecting", "modal"}
    /\ flow' = NoFlow
    /\ lastCmd' = NoLastCmd
    /\ lastFire' = NoFire
    /\ UNCHANGED <<config, file, jobs, running, cached_maps, ready,
                   fetchCount, cmds, firing, apiIn, apiCall,
                   serverBans, shown, boot>>


\* What an on_submit handler does once it has its payload: the POST, the
\* reply, the channel notification.  raise_for_status() and a notification
\* that raises both land in the except branch, which replies (again).
on_submit_result(name, po, notifyOk) ==
    IF po # "ok"
       THEN [NoLastCmd EXCEPT !.name = name, !.requests = 1, !.responses = 1,
                              !.ext = "failed", !.reply = "failure"]
    ELSE IF notifyOk
       THEN [NoLastCmd EXCEPT !.name = name, !.requests = 1, !.responses = 1,
                              !.ext = "ok", !.reply = "success"]
    ELSE [NoLastCmd EXCEPT !.name = name, !.requests = 1, !.responses = 2,
                           !.ext = "ok", !.reply = "success",
                           !.crashed = TRUE]

\* ReasonModal.on_submit of /banplayer
ReasonModal_on_submit(po, notifyOk) ==
    /\ flow.cmd = "banplayer" /\ flow.pc = "modal"
    /\ flow' = [flow EXCEPT !.pc = "selecting", !.player_id = ""]
    /\ lastCmd' = [on_submit_result("ReasonModal.on_submit", po, notifyOk)
                      EXCEPT !.endpoint = "add_blacklist_record",
                             !.player_id = flow.player_id]
    /\ lastFire' = NoFire
    /\ UNCHANGED <<config, file, jobs, running, cached_maps, ready,
                   fetchCount, cmds, firing, apiIn, apiCall,
                   serverBans, shown, boot>>

\* DurationModal.on_submit of /bantemp
\* (First the variant without the range check of lines 489-490.)
DurationModal_on_submit_any_hours(duration, po, notifyOk) ==
    /\ flow.cmd = "bantemp" /\ flow.pc = "modal"
    /\ flow' = [flow EXCEPT !.pc = "selecting", !.player_id = ""]
    /\ lastFire' = NoFire
    /\ \E text \in {strip(duration)} :
          IF SignedIntRaises(text)
             THEN lastCmd' = [NoLastCmd EXCEPT
                                 !.name = "DurationModal.on_submit",
                                 !.duration = duration,
                                 !.responses = 1, !.reply = "failure"]
          ELSE lastCmd' = [on_submit_result("DurationModal.on_submit",
                                            po, notifyOk)
                              EXCEPT !.endpoint = "temp_ban",
                                     !.player_id = flow.player_id,
                                     !.hours = SignedIntVal(text),
                                     !.duration = duration]
    /\ UNCHANGED <<config, file, jobs, running, cached_maps, ready,
                   fetchCount, cmds, firing, apiIn, apiCall,
                   serverBans, shown, boot>>

DurationModal_on_submit(duration, po, notifyOk) ==
    /\ flow.cmd = "bantemp" /\ flow.pc = "modal"
    /\ flow' = [flow EXCEPT !.pc = "selecting", !.player_id = ""]
    /\ lastFire' = NoFire
    /\ \E text \in {strip(duration)} :
          IF SignedIntRaises(text)
             \/ SignedIntVal(text) <= 0 \/ SignedIntVal(text) > 720
             THEN lastCmd' = [NoLastCmd EXCEPT
                                 !.name = "DurationModal.on_submit",
                                 !.duration = duration,
                                 !.responses = 1, !.reply = "failure"]
          ELSE lastCmd' = [on_submit_result("DurationModal.on_submit",
                                            po, notifyOk)
                              EXCEPT !.endpoint = "temp_ban",
                                     !.player_id = flow.player_id,
                                     !.hours = SignedIntVal(text),
                                     !.duration = duration]
    /\ UNCHANGED <<config, file, jobs, running, cached_maps, ready,
                   fetchCount, cmds, firing, apiIn, apiCall,
                   serverBans, shown, boot>>

Players ==
    {[player |-> <<"F", "i", "n">>, player_id |-> "p1"],
     [player |-> <<"f", "i", "g">>, player_id |-> "p2"],
     [player |-> <<"T", "i", "n">>, player_id |-> "p3"]}

\* A scoreboard on which 26 names begin with f.
CrowdedStats == [i \in 1..26 |-> [player |-> <<"f">>, player_id |-> "p1"]]

ScoreboardBodies ==
    {[json_ok |-> FALSE, stats |-> <<>>]}
    \cup {[json_ok |-> TRUE, stats |-> st] :
             st \in SeqsUpTo(Players, MaxPlayers) \cup {CrowdedStats}}

PrefixArgs == {<<>>, <<"F">>, <<"f", "i">>, <<"g">>}

DurationArgs == {<<"2">>, <<" ", "2", " ">>, <<"7", "2", "0">>,
                 <<"7", "2", "1">>, <<"0">>, <<"-", "5">>,
                 <<"2", ".", "5">>, <<>>}

\* The two ban commands from the command to the ban request.
NextFlows ==
    \/ \E name_prefix \in PrefixArgs, o \in HttpOutcomes,
          body \in ScoreboardBodies : banplayer(name_prefix, o, body)
    \/ \E name_prefix \in PrefixArgs, o \in HttpOutcomes,
          body \in ScoreboardBodies : bantemp(name_prefix, o, body)
    \/ \E i \in 1..Len(flow.filtered) : PlayerDropdown_callback(i)
    \/ flow_abandoned
    \/ \E po \in HttpOutcomes, notifyOk \in BOOLEAN :
          ReasonModal_on_submit(po, notifyOk)
    \/ \E duration \in DurationArgs, po \in HttpOutcomes,
          notifyOk \in BOOLEAN :
          DurationModal_on_submit(duration, po, notifyOk)

SpecFlows == Init /\ [][NextFlows]_vars

\* /bans and /unban while the server's ban list changes.
NextBans ==
    \/ \E o \in HttpOutcomes : bans(o)
    \/ \E index \in UnbanIndexes, o \in HttpOutcomes, uo \in HttpOutcomes :
          unban(index, o, uo)
    \/ \E b \in ServerBanRecords : server_adds_ban(b)
    \/ \E i \in 1..Len(serverBans) : server_drops_ban(i)

SpecBans == Init /\ [][NextBans]_vars

\* Every handler of the bot, each on a few inputs.
TwoFins == <<[player |-> <<"F", "i", "n">>, player_id |-> "p1"],
             [player |-> <<"f", "i", "g">>, player_id |-> "p2"]>>

NextHandlers ==
    \/ \E job \in {1, 3} :
          setscheduledtime(job, <<"2", "3", "5", "9">>, 300, "ok")
    \/ reply_sent
    \/ \E o \in HttpOutcomes, body \in SettingsBodies : curping(o, body)
    \/ \E o \in HttpOutcomes, body \in SettingsBodies : online(o, body)
    \/ \E ping \in PingArgs, o \in HttpOutcomes : setping(ping, o)
    \/ \E inChannel \in BOOLEAN : show_vips(inChannel)
    \/ \E inChannel \in BOOLEAN, db \in DbOutcomes : playerstats(inChannel, db)
    \/ curscheduledtime
    \/ help_command
    \/ \E o \in HttpOutcomes : bans(o)
    \/ \E index \in UnbanIndexes, o \in HttpOutcomes, uo \in HttpOutcomes :
          unban(index, o, uo)
    \/ server_adds_ban([type |-> "temp", player_id |-> "p1"])
    \/ \E i \in 1..Len(serverBans) : server_drops_ban(i)
    \/ \E o \in HttpOutcomes :
          banplayer(<<"F">>, o, [json_ok |-> TRUE, stats |-> TwoFins])
    \/ \E o \in HttpOutcomes :
          bantemp(<<"F">>, o, [json_ok |-> TRUE, stats |-> TwoFins])
    \/ \E i \in 1..Len(flow.filtered) : PlayerDropdown_callback(i)
    \/ flow_abandoned
    \/ \E po \in HttpOutcomes, notifyOk \in BOOLEAN :
          ReasonModal_on_submit(po, notifyOk)
    \/ \E duration \in {<<"2">>, <<"0">>}, po \in HttpOutcomes,
          notifyOk \in BOOLEAN :
          DurationModal_on_submit(duration, po, notifyOk)

SpecHandlers == Init /\ [][NextHandlers]_vars

\* ------------------------------------------------------------------------
\* Module start: load_config and the statements that follow it
\* ------------------------------------------------------------------------
\* load_config(): only FileNotFoundError moves on to the next path; source
\* is the path it returned from, 0 for the defaults.
load_config(paths) ==
    LET existing == {i \in 1..Len(paths) : paths[i].state # "missing"}
    IN IF existing = {}
          THEN [raised |-> FALSE, source |-> 0, cfg |-> Defaults]
       ELSE LET i == CHOOSE j \in existing : \A k \in existing : j <= k
            IN IF paths[i].state = "found"
                  THEN [raised |-> FALSE, source |-> i, cfg |-> paths[i].cfg]
                  ELSE [raised |-> TRUE, source |-> i, cfg |-> Defaults]

\* Lines 60-89: the required-settings check raises ValueError,
\* create_engine(None) raises as well.
module_start ==
    /\ ~boot.done
    /\ \E r \in {load_config(boot.paths)} :
          boot' = [boot EXCEPT
                      !.done = TRUE, !.source = r.source, !.cfg = r.cfg,
                      !.stage =
                         IF r.raised THEN "load_raises"
                         ELSE IF \/ r.cfg.DISCORD_TOKEN = ""
                                 \/ r.cfg.CHANNEL_ID = "None"
                                 \/ r.cfg.API_BASE_URL = ""
                                 \/ r.cfg.API_BEARER_TOKEN = ""
                            THEN "settings_missing"
                         ELSE IF r.cfg.DB_URL = "None" THEN "engine_raises"
                         ELSE "started"]
    /\ UNCHANGED <<config, file, jobs, running, cached_maps, ready,
                   fetchCount, cmds, lastCmd, firing, lastFire, apiIn,
                   apiCall, serverBans, shown, flow>>

InitLoad ==
    /\ boot \in {[paths |-> <<a, b>>, done |-> FALSE, stage |-> "none",
                   source |-> 0, cfg |-> Defaults] :
                     a \in PathStates, b \in PathStates}
    /\ config = InitConfig
    /\ file = [valid |-> TRUE, cfg |-> InitConfig]
    /\ jobs = [n \in JobNums |-> NoJob]
    /\ running = FALSE
    /\ cached_maps = EmptyCache
    /\ ready = "idle"
    /\ fetchCount = 0
    /\ cmds = 0
    /\ lastCmd = NoLastCmd
    /\ firing = [n \in JobNums |-> NoRun]
    /\ lastFire = NoFire
    /\ apiIn = NoApiIn
    /\ apiCall = NoApiCall
    /\ serverBans = <<>>
    /\ shown = <<>>
    /\ flow = NoFlow

NextLoad == module_start

SpecLoad == InitLoad /\ [][NextLoad]_vars

\* ------------------------------------------------------------------------
\* Properties
\* ------------------------------------------------------------------------
\* The time/ping pair of job n in the scheduler's job arguments and in a
\* configuration dictionary.
SchedPairOf(js, n) == [time |-> js[n].time, ping |-> js[n].ping]

SchedPair(n) == SchedPairOf(jobs, n)

ConfigPair(cfg, n) == [time |-> cfg[job_config_map(n)[1]],
                       ping |-> cfg[job_config_map(n)[2]]]

\* C1: every API client function returns its sentinel and logs the failure
\* when the HTTP call raises or answers with a non-2xx status.
C1_FailureIsSentinelAndLogged ==
    (apiCall.done /\ apiIn.outcome \in FailedHttp)
        => (apiCall.sentinel /\ apiCall.logged)

\* C2: a command whose external call (API request, database query, config
\* file write) failed ends by replying with a failure message: it neither
\* ends in an unhandled exception nor reports success.
C2_FailureIsReported ==
    (lastCmd.ext = "failed") => (~lastCmd.crashed /\ lastCmd.reply = "failure")

\* C3: when reschedule_job has returned for job n, the scheduler's job
\* arguments, the config dictionary and the config file hold the same
\* time/ping pair for n, and it is the new pair whenever /setscheduledtime
\* replies that the job was rescheduled.
C3_CopiesAgree ==
    (lastCmd.name = "setscheduledtime" /\ lastCmd.ext # "none")
        => /\ jobs[lastCmd.job].present
           /\ SchedPair(lastCmd.job) = ConfigPair(config, lastCmd.job)
           /\ file.valid
           /\ ConfigPair(file.cfg, lastCmd.job) = ConfigPair(config, lastCmd.job)
           /\ (lastCmd.reply = "success"
                  => SchedPair(lastCmd.job) =
                        [time |-> lastCmd.time, ping |-> lastCmd.ping])

\* C4: interleaved /setscheduledtime commands, cron runs and on_ready act
\* as if run one after another: every step that changes the scheduler's
\* jobs or the config dictionary is the whole effect of one command (both
\* copies of that one job set to the command's pair) or of on_ready's
\* re-registration from the config, and for each registered job the
\* scheduler arguments and the config entries always hold the same pair.
SchedAndConfigAgree ==
    \A n \in JobNums : jobs[n].present => SchedPair(n) = ConfigPair(config, n)

WholeCommandStep ==
    /\ lastCmd'.name = "setscheduledtime"
    /\ lastCmd'.job \in JobNums
    /\ jobs'[lastCmd'.job].present
    /\ SchedPairOf(jobs', lastCmd'.job) =
          [time |-> lastCmd'.time, ping |-> lastCmd'.ping]
    /\ ConfigPair(config', lastCmd'.job) = SchedPairOf(jobs', lastCmd'.job)
    /\ \A k \in ConfigKeys :
          (k # job_config_map(lastCmd'.job)[1] /\ k # job_config_map(lastCmd'.job)[2])
              => config'[k] = config[k]
    /\ \A n \in JobNums : n # lastCmd'.job => jobs'[n] = jobs[n]

ReRegistrationStep ==
    /\ ready = "syncing" /\ ready' = "notifying"
    /\ config' = config
    /\ \A n \in JobNums :
          jobs'[n] # jobs[n]
              => (jobs'[n].present /\ SchedPairOf(jobs', n) = ConfigPair(config, n))

C4_ReschedulingIsSerial ==
    /\ []SchedAndConfigAgree
    /\ [][(config' # config \/ jobs' # jobs)
             => (WholeCommandStep \/ ReRegistrationStep)]_vars

\* Two commands and a cron run are in flight together, and both jobs have
\* been rescheduled by the commands.
C4_Witness ==
    /\ cmds = 2
    /\ \E n \in JobNums : firing[n].pc = "sending"
    /\ \A n \in JobNums : jobs[n].present /\ jobs[n].ping = 300

\* C5: when an on_ready handler ends, the scheduler holds both jobs, each
\* registered from the configuration's values for it, and no later step
\* drops a job or leaves it with another pair than the configuration's.
C5_BothJobsRegistered ==
    /\ [][(ready # "idle" /\ ready' = "idle")
             => \A n \in JobNums :
                   /\ jobs'[n].present
                   /\ SchedPairOf(jobs', n) = ConfigPair(config', n)]_vars
    /\ [][\A n \in JobNums :
             jobs[n].present
                => /\ jobs'[n].present
                   /\ SchedPairOf(jobs', n) = ConfigPair(config', n)]_vars

\* C6: a run of job n sends set_max_ping_autokick the ping of job n's
\* latest registration, and changes neither the config dictionary nor any
\* job of the scheduler.
C6_RunSendsRegisteredPing ==
    [][(lastFire'.step = "run")
          => /\ lastFire'.ping = jobs[lastFire'.job].ping
             /\ config' = config
             /\ jobs' = jobs]_vars

\* Job 1 was rescheduled to a new ping and ran with it, while job 2 still
\* holds another ping.
C6_Witness ==
    /\ lastFire.step = "run" /\ lastFire.job = 1
    /\ lastFire.ping = 300
    /\ jobs[1].ping = 300 /\ jobs[2].present /\ jobs[2].ping = 320

FourDigits(t) ==
    /\ Len(t) = 4
    /\ \A i \in 1..4 : t[i] \in {"0", "1", "2", "3", "4", "5", "6", "7", "8", "9"}

IsHHMM(t) ==
    /\ FourDigits(t)
    /\ IntVal(SubSeq(t, 1, 2)) \in 0..23
    /\ IntVal(SubSeq(t, 3, 4)) \in 0..59

WellFormedConfig ==
    \A n \in JobNums :
        /\ IsHHMM(ConfigPair(config, n).time)
        /\ ConfigPair(config, n).ping \in Int

C8_InvalidCommandRejected ==
    /\ []WellFormedConfig
    /\ [][(/\ lastCmd'.name = "setscheduledtime"
           /\ ~(IsHHMM(lastCmd'.time) /\ lastCmd'.job \in {1, 2}))
             => /\ lastCmd'.reply = "warning"
                /\ ~lastCmd'.crashed
                /\ config' = config /\ file' = file /\ jobs' = jobs]_vars

\* C9: when fetch_and_cache_maps returns True the cache holds exactly the
\* id -> pretty_name pairs of the response's warfare maps with a non-empty
\* id and a non-empty pretty_name without "night" in any case; when it
\* returns False the cache is what it was.
HasNightAnyCase(s) ==
    \E i \in 1..(Len(s) - 4) :
        /\ s[i] \in {"n", "N"}
        /\ s[i + 1] \in {"i", "I"}
        /\ s[i + 2] \in {"g", "G"}
        /\ s[i + 3] \in {"h", "H"}
        /\ s[i + 4] \in {"t", "T"}

Qualifies(m) ==
    /\ m.game_mode = "warfare"
    /\ m.id # ""
    /\ m.pretty_name # <<>>
    /\ ~HasNightAnyCase(m.pretty_name)

QualifyingAt(maps) == {i \in 1..Len(maps) : Qualifies(maps[i])}

CachePairs(c) == {<<k, c[k]>> : k \in DOMAIN c}

MapsCallDone == apiCall.done /\ apiIn.fn = "fetch_and_cache_maps"

C9_CacheIsExactlyTheResponse ==
    MapsCallDone
        => IF ~apiCall.sentinel
              THEN CachePairs(cached_maps) =
                      {<<apiIn.maps[i].id, apiIn.maps[i].pretty_name>> :
                          i \in QualifyingAt(apiIn.maps)}
              ELSE cached_maps = apiIn.cache

\* C9 as amended: for an id that several qualifying maps of the response
\* share, the cache holds the pretty_name of the last of them.
C9_CacheIsLastOfEachId ==
    MapsCallDone
        => IF ~apiCall.sentinel
              THEN /\ DOMAIN cached_maps =
                         {apiIn.maps[i].id : i \in QualifyingAt(apiIn.maps)}
                   /\ \A i \in QualifyingAt(apiIn.maps) :
                         (\A j \in QualifyingAt(apiIn.maps) :
                             apiIn.maps[j].id = apiIn.maps[i].id => j <= i)
                            => cached_maps[apiIn.maps[i].id] = apiIn.maps[i].pretty_name
              ELSE cached_maps = apiIn.cache

\* The call returned True on a response with a qualifying map, and an id
\* of the previous cache is gone.
C9_Witness ==
    /\ MapsCallDone /\ ~apiCall.sentinel
    /\ QualifyingAt(apiIn.maps) # {}
    /\ \E k \in DOMAIN apiIn.cache : k \notin DOMAIN cached_maps

\* C10: fetch_and_cache_maps is invoked at most once in the life of the
\* process, and nothing but on_ready's call of it changes cached_maps.
C10_FetchedOnce ==
    /\ [](fetchCount <= 1)
    /\ [][cached_maps' # cached_maps
             => (ready = "syncing" /\ ready' = "notifying")]_vars

\* C11: every handler makes at most one request to the game-server API in
\* one invocation.
C11_AtMostOneRequest ==
    lastCmd.name # "none" => lastCmd.requests <= 1

\* C11 as amended: /bans makes one request for the list and one for each ban
\* it numbers, six at most; /unban makes one request, or three when it has
\* an entry at the index; every other handler makes at most one.
C11_RequestsPerCommand ==
    /\ lastCmd.name = "bans"
          => (lastCmd.requests = 1 + Len(shown) /\ lastCmd.requests <= 6)
    /\ lastCmd.name = "unban"
          => lastCmd.requests = (IF lastCmd.endpoint = "unban" THEN 3 ELSE 1)
    /\ lastCmd.name \notin {"none", "bans", "unban"} => lastCmd.requests <= 1

\* /unban found its entry and the unban request failed, after a /bans that
\* numbered two bans.
C11_Witness ==
    /\ lastCmd.name = "unban" /\ lastCmd.endpoint = "unban"
    /\ lastCmd.reply = "failure"
    /\ Len(shown) = 2

\* C12: with each path either absent or holding a complete file,
\* load_config returns the contents of the first path that exists and the
\* defaults exactly when neither exists, and the module goes on to start
\* the bot.
UsablePath(p) ==
    p.state = "missing" \/ (p.state = "found" /\ p.cfg = Complete)

C12_LoadEndsUsable ==
    (boot.done /\ \A i \in 1..2 : UsablePath(boot.paths[i]))
        => /\ boot.source = (IF boot.paths[1].state = "found" THEN 1
                              ELSE IF boot.paths[2].state = "found" THEN 2
                              ELSE 0)
           /\ boot.cfg = (IF boot.source = 0 THEN Defaults
                           ELSE boot.paths[boot.source].cfg)
           /\ boot.stage = "started"

\* C13: an unban request of /unban i, for a number i that the latest /bans
\* reply showed, carries the player id shown as number i, whatever happened
\* to the server's ban list in between.
C13_UnbanIsTheShownPlayer ==
    (/\ lastCmd.name = "unban" /\ lastCmd.endpoint = "unban"
     /\ lastCmd.index \in 1..Len(shown))
        => shown[lastCmd.index] = lastCmd.player_id

\* The paths on which a ping reaches set_max_ping_autokick: /setping, and
\* the cron jobs as registered by on_ready and by /setscheduledtime.
RangePingArgs == {0, 1, 10000, 10001}

NextPing ==
    \/ \E job \in JobNums, time \in SchedTimeArgs, ping \in PingArgs :
          setscheduledtime(job, time, ping, "ok")
    \/ reply_sent
    \/ \E ping \in RangePingArgs, o \in HttpOutcomes : setping(ping, o)
    \/ on_ready_start
    \/ on_ready_body("exception", NoBody, "ok", "ok")
    \/ on_ready_notify
    \/ \E n \in JobNums, o \in HttpOutcomes : fire_job(n, o, TRUE)
    \/ \E n \in JobNums, sent \in BOOLEAN : announce_sent(n, sent)

SpecPing == Init /\ [][NextPing]_vars

\* C16: every ping sent to set_max_ping_autokick, by /setping or by a cron
\* job, lies in 1..10000, and /setping with a ping outside that range makes
\* no request.
C16_PingInRange ==
    /\ (lastFire.step = "run" /\ lastFire.requests >= 1)
          => lastFire.ping \in 1..10000
    /\ lastCmd.name = "setping"
          => IF lastCmd.ping \in 1..10000
                THEN lastCmd.requests <= 1
                ELSE lastCmd.requests = 0

\* C14: a dropdown is offered only with 1 to 25 players whose names begin
\* with the prefix in any case, and a modal is open only for one of them;
\* a ban request is made only by the on_submit handler of the open modal,
\* to the endpoint of its command and for the selected player; /bantemp
\* sends hours in 1..720, and a duration that is no integer in 1..720
\* causes no request and a failure reply.
OfferIsFiltered ==
    flow.pc \in {"selecting", "modal"}
        => /\ Len(flow.filtered) \in 1..25
           /\ \A i \in 1..Len(flow.filtered) :
                 /\ flow.filtered[i] \in Players
                 /\ Len(flow.prefix) <= Len(flow.filtered[i].player)
                 /\ \A k \in 1..Len(flow.prefix) :
                       LowerChar(flow.filtered[i].player[k]) =
                          LowerChar(flow.prefix[k])

ModalIsForOfferedPlayer ==
    flow.pc = "modal"
        => \E i \in 1..Len(flow.filtered) :
              flow.filtered[i].player_id = flow.player_id

\* The duration texts of DurationArgs that denote an integer in 1..720.
HoursInRange == {<<"2">>, <<" ", "2", " ">>, <<"7", "2", "0">>}

C14_BanOnlyAfterSelection ==
    /\ []OfferIsFiltered
    /\ []ModalIsForOfferedPlayer
    /\ [][lastCmd'.endpoint \in {"add_blacklist_record", "temp_ban"}
             => /\ flow.pc = "modal"
                /\ lastCmd'.player_id = flow.player_id
                /\ lastCmd'.requests = 1
                /\ IF flow.cmd = "banplayer"
                      THEN /\ lastCmd'.name = "ReasonModal.on_submit"
                           /\ lastCmd'.endpoint = "add_blacklist_record"
                      ELSE /\ flow.cmd = "bantemp"
                           /\ lastCmd'.name = "DurationModal.on_submit"
                           /\ lastCmd'.endpoint = "temp_ban"
                           /\ lastCmd'.hours \in 1..720
                           /\ lastCmd'.duration \in HoursInRange]_vars
    /\ [][(/\ lastCmd'.name = "DurationModal.on_submit"
           /\ lastCmd'.duration \notin HoursInRange)
             => /\ lastCmd'.endpoint = "none"
                /\ lastCmd'.requests = 0
                /\ lastCmd'.reply = "failure"]_vars

\* /bantemp with prefix "fi" offered Fin and fig; fig was selected and
\* temp-banned for 720 hours.
C14_Witness ==
    /\ lastCmd.endpoint = "temp_ban" /\ lastCmd.hours = 720
    /\ lastCmd.player_id = "p2" /\ lastCmd.reply = "success"
    /\ Len(flow.filtered) = 2 /\ flow.prefix = <<"f", "i">>

\* C15: /showvips and /playerstats invoked outside their channel send the
\* restriction message and make no API request and no database query;
\* invoked inside it they go on to the external lookup.
C15_ChannelRestricted ==
    lastCmd.name \in {"showvips", "playerstats"}
        => /\ lastCmd.channel = "outside"
                => /\ lastCmd.reply = "warning" /\ lastCmd.responses = 1
                   /\ lastCmd.requests = 0 /\ lastCmd.ext = "none"
           /\ lastCmd.channel = "inside"
                => (lastCmd.requests >= 1 \/ lastCmd.ext # "none")

\* C17: every command handler and every modal on_submit handler uses
\* interaction.response exactly once, whichever path it takes.
C17_ExactlyOneResponse ==
    lastCmd.name # "none" => lastCmd.responses = 1

\* C18: whenever an on_ready handler ends, the scheduler is running and
\* holds both cron jobs; the scheduler is started at most once, that is, a
\* running scheduler is never found stopped and started again.
C18_EndsWithRunningSchedule ==
    /\ [][(ready # "idle" /\ ready' = "idle")
             => /\ running'
                /\ \A n \in JobNums : jobs'[n].present]_vars
    /\ [][running => running']_vars

\* C19: a /setscheduledtime that calls reschedule_job for job n leaves the
\* other job as it was, and leaves every key other than SCHEDULED_JOB_n_TIME
\* and SCHEDULED_JOB_n_PING unchanged in the configuration dictionary and
\* in the persisted file.
OtherKeys(n) == ConfigKeys \ {job_config_map(n)[1], job_config_map(n)[2]}

C19_OtherJobUntouched ==
    [][(lastCmd'.name = "setscheduledtime" /\ lastCmd'.ext # "none"
          /\ lastCmd'.job \in JobNums)
         => /\ jobs'[3 - lastCmd'.job] = jobs[3 - lastCmd'.job]
            /\ \A k \in OtherKeys(lastCmd'.job) : config'[k] = config[k]
            /\ file.valid
                 => /\ file'.valid
                    /\ \A k \in OtherKeys(lastCmd'.job) :
                          file'.cfg[k] = file.cfg[k]]_vars

====
